---------------------------- MODULE Spec2Model ----------------------------
(***************************************************************************)
(* A model of src/server/lib/AutoLeveling.js: the probe session (state,    *)
(* start, stop, resetState, the probe_update handler), the height-map file *)
(* operations (load, save), the G-code line synthesizer and the grid       *)
(* planner.                                                                *)
(*                                                                         *)
(* JavaScript values are records tagged with their type.  A number is the  *)
(* decimal m * 10^(-e), kept normalised (e = 0, or m not divisible by 10). *)
(* -0 is not told apart from 0 (String(-0) is "0", and -0 == 0).  Text is  *)
(* a sequence of one-character strings; Str joins it into a string.        *)
(***************************************************************************)
EXTENDS Integers, Sequences, FiniteSets, TLC

(***************************************************************************)
(* Bounds of the model.                                                    *)
(***************************************************************************)
\* the longest positions list given to start
MaxPoints == 2
\* the most samples a save is made with in Spec (the lines of a saved file)
MaxSavedLines == 1
\* the most objects the heap holds in HeapSpec
MaxObjects == 12
\* the largest coordinate of a planned grid (start and end lie in 0..MaxCoord)
MaxCoord == 2

(***************************************************************************)
(* JavaScript values.                                                      *)
(***************************************************************************)
Undefined == [t |-> "undefined"]
Null == [t |-> "null"]
NaN == [t |-> "NaN"]
PosInf == [t |-> "Infinity"]
NegInf == [t |-> "-Infinity"]

RECURSIVE Normalise(_, _)
Normalise(m, e) ==
  IF m = 0 THEN [m |-> 0, e |-> 0]
  ELSE IF e > 0 /\ m % 10 = 0 THEN Normalise(m \div 10, e - 1)
  ELSE [m |-> m, e |-> e]

\* the number m * 10^(-e)
Dec(m, e) == [t |-> "number"] @@ Normalise(m, e)
Num(n) == Dec(n, 0)

IsNumber(v) == v.t = "number"
IsNil(v) == v.t \in {"undefined", "null"}

RECURSIVE Pow10(_)
Pow10(n) == IF n = 0 THEN 1 ELSE 10 * Pow10(n - 1)

\* a < b for two values of type number that are not NaN
NumLess(a, b) ==
  CASE a.t = "-Infinity" -> b.t # "-Infinity"
    [] a.t = "Infinity" -> FALSE
    [] b.t = "-Infinity" -> FALSE
    [] b.t = "Infinity" -> TRUE
    [] OTHER -> a.m * Pow10(b.e) < b.m * Pow10(a.e)

\* ToNumber: undefined is NaN, null is 0
ToNumber(v) ==
  CASE v.t = "undefined" -> NaN
    [] v.t = "null" -> Num(0)
    [] OTHER -> v

MathMin(a, b) ==
  LET x == ToNumber(a)
      y == ToNumber(b)
  IN IF x.t = "NaN" \/ y.t = "NaN" THEN NaN
     ELSE IF NumLess(y, x) THEN y ELSE x

MathMax(a, b) ==
  LET x == ToNumber(a)
      y == ToNumber(b)
  IN IF x.t = "NaN" \/ y.t = "NaN" THEN NaN
     ELSE IF NumLess(x, y) THEN y ELSE x

\* v / 2
Halve(v) ==
  LET x == ToNumber(v)
  IN IF x.t = "number" THEN Dec(x.m * 5, x.e + 1) ELSE x

(***************************************************************************)
(* Text.                                                                   *)
(***************************************************************************)
DigitChars == <<"0", "1", "2", "3", "4", "5", "6", "7", "8", "9">>
IsDigit(c) == \E i \in 1..10 : DigitChars[i] = c
DigitVal(c) == (CHOOSE i \in 1..10 : DigitChars[i] = c) - 1
WhiteSpace == {" ", "\t", "\r"}
IsSpace(c) == c \in WhiteSpace

RECURSIVE Str(_)
Str(cs) == IF cs = <<>> THEN "" ELSE Head(cs) \o Str(Tail(cs))

RECURSIVE NatText(_)
NatText(n) ==
  IF n < 10 THEN <<DigitChars[n + 1]>>
  ELSE NatText(n \div 10) \o <<DigitChars[(n % 10) + 1]>>

RECURSIVE Zeros(_)
Zeros(n) == IF n <= 0 THEN <<>> ELSE <<"0">> \o Zeros(n - 1)

\* Number::toString of a finite number: plain decimal notation down to 1e-6,
\* exponent notation below it
FiniteText(v) ==
  LET neg == v.m < 0
      digits == NatText(IF neg THEN 0 - v.m ELSE v.m)
      k == Len(digits)
      n == k - v.e
      body ==
        IF v.e = 0 THEN digits
        ELSE IF n > 0
          THEN SubSeq(digits, 1, n) \o <<".">> \o SubSeq(digits, n + 1, k)
        ELSE IF n > -6
          THEN <<"0", ".">> \o Zeros(0 - n) \o digits
        ELSE <<digits[1]>>
               \o (IF k > 1 THEN <<".">> \o SubSeq(digits, 2, k) ELSE <<>>)
               \o <<"e", "-">> \o NatText(1 - n)
  IN (IF neg THEN <<"-">> ELSE <<>>) \o body

\* ToString of a value, as string concatenation and template literals apply it
ToText(v) ==
  CASE v.t = "number" -> FiniteText(v)
    [] v.t = "undefined" -> <<"u", "n", "d", "e", "f", "i", "n", "e", "d">>
    [] v.t = "null" -> <<"n", "u", "l", "l">>
    [] v.t = "NaN" -> <<"N", "a", "N">>
    [] v.t = "Infinity" -> <<"I", "n", "f", "i", "n", "i", "t", "y">>
    [] v.t = "-Infinity" -> <<"-", "I", "n", "f", "i", "n", "i", "t", "y">>

RECURSIVE DigitsVal(_)
DigitsVal(cs) ==
  IF cs = <<>> THEN 0
  ELSE 10 * DigitsVal(SubSeq(cs, 1, Len(cs) - 1)) + DigitVal(cs[Len(cs)])

\* Number(text) for a text the pattern -?\d*\.?\d+ has matched
NumberOf(cs) ==
  LET neg == cs[1] = "-"
      body == IF neg THEN Tail(cs) ELSE cs
      dots == {i \in 1..Len(body) : body[i] = "."}
      frac == IF dots = {} THEN 0 ELSE Len(body) - (CHOOSE i \in dots : TRUE)
      digits == IF dots = {} THEN body
                ELSE SubSeq(body, 1, Len(body) - frac - 1)
                       \o SubSeq(body, Len(body) - frac + 1, Len(body))
      mag == DigitsVal(digits)
  IN Dec(IF neg THEN 0 - mag ELSE mag, frac)


(***************************************************************************)
(* gcode(cmd, params): one instruction line.  params is the parameter      *)
(* object as the sequence of its (letter, value) entries in insertion      *)
(* order.                                                                  *)
(***************************************************************************)
RECURSIVE JoinWith(_, _)
JoinWith(items, sep) ==
  IF items = <<>> THEN ""
  ELSE IF Len(items) = 1 THEN items[1]
  ELSE items[1] \o sep \o JoinWith(Tail(items), sep)

\* (a synthesizer that drops every falsy value, 0 included)
gcodeDropsFalsy(cmd, params) ==
  LET kept == SelectSeq(params, LAMBDA p : ~IsNil(p.value) /\ p.value # Num(0))
      s == JoinWith([i \in 1..Len(kept) |->
                       kept[i].letter \o Str(ToText(kept[i].value))], " ")
  IN IF s # "" THEN cmd \o " " \o s ELSE cmd

gcode(cmd, params) ==
  LET kept == SelectSeq(params, LAMBDA p : ~IsNil(p.value))
      s == JoinWith([i \in 1..Len(kept) |->
                       kept[i].letter \o Str(ToText(kept[i].value))], " ")
  IN IF s # "" THEN cmd \o " " \o s ELSE cmd

Param(letter, value) == [letter |-> letter, value |-> value]

(***************************************************************************)
(* The instruction stream start(options) builds.  An option that is        *)
(* Undefined is an omitted one.                                            *)
(***************************************************************************)
DefaultProbeFeedrate == 20
DefaultStartZ == 0
DefaultEndZ == 0

OrDefault(v, d) == IF v.t = "undefined" THEN Num(d) ELSE v

\* (a synthesizer that halves the probe feedrate at every point)
PointGCodesAllHalved(position, index, o) ==
  LET feedrate == o.feedrate
      probeFeedrate == OrDefault(o.probeFeedrate, DefaultProbeFeedrate)
      startZ == OrDefault(o.startZ, DefaultStartZ)
      endZ == OrDefault(o.endZ, DefaultEndZ)
      marker == gcode("(Auto Leveling: probing point "
                        \o Str(ToText(Num(index))) \o ")", <<>>)
      common == << gcode("G0", <<Param("X", position.x), Param("Y", position.y),
                                 Param("F", feedrate)>>),
                   gcode("G38.2", <<Param("Z", endZ),
                                    Param("F", Halve(probeFeedrate))>>),
                   gcode("G0", <<Param("Z", startZ)>>) >>
  IN IF index = 0
     THEN <<marker, gcode("G90", <<>>), gcode("G0", <<Param("Z", startZ)>>)>>
            \o common
     ELSE <<marker, gcode("G90", <<>>)>> \o common

\* the lines pushed for the position at (0-based) index
PointGCodes(position, index, o) ==
  LET feedrate == o.feedrate
      probeFeedrate == OrDefault(o.probeFeedrate, DefaultProbeFeedrate)
      startZ == OrDefault(o.startZ, DefaultStartZ)
      endZ == OrDefault(o.endZ, DefaultEndZ)
      marker == gcode("(Auto Leveling: probing point "
                        \o Str(ToText(Num(index))) \o ")", <<>>)
  IN IF index = 0
     THEN << marker,
             gcode("G90", <<>>),
             gcode("G0", <<Param("Z", startZ)>>),
             gcode("G0", <<Param("X", position.x), Param("Y", position.y),
                           Param("F", feedrate)>>),
             gcode("G38.2", <<Param("Z", endZ),
                              Param("F", Halve(probeFeedrate))>>),
             gcode("G0", <<Param("Z", startZ)>> ) >>
     ELSE << marker,
             gcode("G90", <<>>),
             gcode("G0", <<Param("X", position.x), Param("Y", position.y),
                           Param("F", feedrate)>>),
             gcode("G38.2", <<Param("Z", endZ), Param("F", probeFeedrate)>>),
             gcode("G0", <<Param("Z", startZ)>> ) >>

RECURSIVE GCodesUpTo(_, _)
GCodesUpTo(o, n) ==
  IF n = 0 THEN <<>>
  ELSE GCodesUpTo(o, n - 1) \o PointGCodes(o.positions[n], n - 1, o)

ProbeGCodes(o) == GCodesUpTo(o, Len(o.positions))

(***************************************************************************)
(* The line tokenizer of loadProbedPositionsFromFile:                      *)
(*   [...line.matchAll(/(-?\d*\.?\d+)?(\s+|$)/g)].map(match[1] -> value)   *)
(***************************************************************************)
\* the text matches -?\d*\.?\d+ as a whole
IsNumberText(cs) ==
  /\ cs # <<>>
  /\ LET body == IF cs[1] = "-" THEN Tail(cs) ELSE cs
     IN /\ body # <<>>
        /\ \A i \in 1..Len(body) : IsDigit(body[i]) \/ body[i] = "."
        /\ Cardinality({i \in 1..Len(body) : body[i] = "."}) <= 1
        /\ IsDigit(body[Len(body)])

\* the first index at or after p that is a white space, or the end of the line
RECURSIVE NextBreak(_, _)
NextBreak(line, p) ==
  IF p > Len(line) \/ IsSpace(line[p]) THEN p ELSE NextBreak(line, p + 1)

\* the first index at or after p that is no white space, or the end of the line
RECURSIVE SkipSpaces(_, _)
SkipSpaces(line, p) ==
  IF p > Len(line) \/ ~IsSpace(line[p]) THEN p ELSE SkipSpaces(line, p + 1)

\* the values of the matches found from index p on (1-based).  The number
\* group cannot hold a white space, so a match at p that has the group runs to
\* the next break; a match without it is a run of white space or the empty
\* match at the end of the line, after which matchAll stops.
RECURSIVE MatchValues(_, _)
MatchValues(line, p) ==
  IF p > Len(line) THEN <<Undefined>>
  ELSE LET q == NextBreak(line, p)
       IN IF q = p
            THEN <<Undefined>> \o MatchValues(line, SkipSpaces(line, p))
          ELSE IF IsNumberText(SubSeq(line, p, q - 1))
            THEN <<NumberOf(SubSeq(line, p, q - 1))>>
                   \o MatchValues(line, SkipSpaces(line, q))
          ELSE MatchValues(line, p + 1)

At(values, i) == IF i <= Len(values) THEN values[i] ELSE Undefined

\* const [x, y, z] = values
ParseLine(line) ==
  LET values == MatchValues(line, 1)
  IN [x |-> At(values, 1), y |-> At(values, 2), z |-> At(values, 3)]

\* data.split('\n')
RECURSIVE Split(_)
Split(data) ==
  IF \A i \in 1..Len(data) : data[i] # "\n" THEN <<data>>
  ELSE LET k == CHOOSE i \in 1..Len(data) :
                  data[i] = "\n" /\ \A j \in 1..(i - 1) : data[j] # "\n"
       IN <<SubSeq(data, 1, k - 1)>> \o Split(SubSeq(data, k + 1, Len(data)))

\* line.trim().length > 0
NonBlank(line) == \E i \in 1..Len(line) : ~IsSpace(line[i])

FileLines(data) == SelectSeq(Split(data), NonBlank)

\* the running minimum and maximum of z over the first n parsed samples
RECURSIVE LoadedMinZ(_, _)
LoadedMinZ(samples, n) ==
  IF n = 0 THEN PosInf ELSE MathMin(samples[n].z, LoadedMinZ(samples, n - 1))

RECURSIVE LoadedMaxZ(_, _)
LoadedMaxZ(samples, n) ==
  IF n = 0 THEN NegInf ELSE MathMax(samples[n].z, LoadedMaxZ(samples, n - 1))

\* (a load that counts the blank lines too)
LoadedStateCountsBlank(data) ==
  LET lines == FileLines(data)
      samples == [i \in 1..Len(lines) |-> ParseLine(lines[i])]
  IN [probePointCount |-> Len(Split(data)),
      probedPositions |-> samples,
      minZ |-> LoadedMinZ(samples, Len(samples)),
      maxZ |-> LoadedMaxZ(samples, Len(samples))]

\* the state loadProbedPositionsFromFile sets from the file's text
LoadedState(data) ==
  LET lines == FileLines(data)
      samples == [i \in 1..Len(lines) |-> ParseLine(lines[i])]
  IN [probePointCount |-> Len(lines),
      probedPositions |-> samples,
      minZ |-> LoadedMinZ(samples, Len(samples)),
      maxZ |-> LoadedMaxZ(samples, Len(samples))]

(***************************************************************************)
(* The text saveProbedPositionsToFile writes.                              *)
(***************************************************************************)
SampleLine(pos) ==
  ToText(pos.x) \o <<" ">> \o ToText(pos.y) \o <<" ">> \o ToText(pos.z)
    \o <<" ", "0", " ", "0", " ", "0", " ", "0", " ", "0", " ", "0">>

\* (a save that writes the last sample first)
RECURSIVE SavedDataReversed(_)
SavedDataReversed(samples) ==
  IF samples = <<>> THEN <<>>
  ELSE IF Len(samples) = 1 THEN SampleLine(samples[1])
  ELSE SavedDataReversed(Tail(samples)) \o <<"\n">> \o SampleLine(samples[1])

RECURSIVE SavedData(_)
SavedData(samples) ==
  IF samples = <<>> THEN <<>>
  ELSE IF Len(samples) = 1 THEN SampleLine(samples[1])
  ELSE SampleLine(samples[1]) \o <<"\n">> \o SavedData(Tail(samples))

(***************************************************************************)
(* The state.                                                              *)
(*   state        this.state of the AutoLeveling instance                  *)
(*   disk         the file at the path load and save are given             *)
(*   lastOp       the operation that ran last                              *)
(*   prev         this.state as it was when that operation began           *)
(*   options      the options of that operation, when it was start         *)
(*   probeGCodes  what the last operation returned, when it was start      *)
(*   returned     what the last operation returned, as text                *)
(*   threw        the last operation raised                                *)
(*   emitted      the events the last operation emitted, in order          *)
(*   armed        history: start has run and no stop, resetState or        *)
(*                successful load since                                    *)
(*   sessionN     history: the number of positions of the last start       *)
(*   delivered    history: the pos of the probe_update events since that   *)
(*                start, in order (the first sessionN of them)             *)
(*   nUpdates     history: the number of probe_update events since that    *)
(*                start (counted up to sessionN + 1)                       *)
(*   frame        the call of start that is running: where it is, its       *)
(*                options, whether it was given a callback, and its list   *)
(*                probeGCodes                                              *)
(*   calls        history: the arguments the callback of the last start    *)
(*                was called with, in order                                *)
(*   heap         the objects made so far, each at its index: the state     *)
(*                objects (probedPositions is the index of an array) and   *)
(*                the arrays of samples                                    *)
(*   self         the index of this.state                                  *)
(*   gpc, gopt, gx, gy, positions   one call of getProbeXYPositions: its   *)
(*                place in the loops, its options, its loop variables and  *)
(*                its list                                                 *)
(***************************************************************************)
VARIABLES state, disk, lastOp, prev, options, probeGCodes, returned, threw,
          emitted, armed, sessionN, delivered, nUpdates, frame, calls,
          heap, self,
          gpc, gopt, gx, gy, positions

sessionVars == <<state, disk, lastOp, prev, options, probeGCodes, returned,
                 threw, emitted, armed, sessionN, delivered, nUpdates,
                 frame, calls, heap, self>>
startVars == <<frame, calls>>
heapVars == <<heap, self>>
gridVars == <<gpc, gopt, gx, gy, positions>>
vars == <<state, disk, lastOp, prev, options, probeGCodes, returned, threw,
          emitted, armed, sessionN, delivered, nUpdates, frame, calls,
          heap, self,
          gpc, gopt, gx, gy, positions>>

\* (defaults without a number for the envelope)
defaultStateNoEnvelope ==
  [probePointCount |-> 0,
   probedPositions |-> <<>>,
   minZ |-> Undefined,
   maxZ |-> Undefined]

defaultState ==
  [probePointCount |-> 0,
   probedPositions |-> <<>>,
   minZ |-> Num(0),
   maxZ |-> Num(0)]

(***************************************************************************)
(* The inputs.                                                             *)
(***************************************************************************)
Pos(x, y, z) == [x |-> x, y |-> y, z |-> z]

\* the pos of a probe_update: measured positions, and ones with a field missing
ProbeInputs ==
  { Pos(Num(0), Num(0), Num(1)),
    Pos(Num(10), Num(0), Dec(-25, 1)),
    Pos(Num(10), Num(10), Undefined),
    Pos(Undefined, Num(0), Num(3)) }

Point(x, y) == [x |-> Num(x), y |-> Num(y)]

\* the first n points of a row of targets
RowPoints(n) == [i \in 1..n |-> Point(10 * (i - 1), 0)]

Options(ps, f, pf, sz, ez) ==
  [positions |-> ps, feedrate |-> f, probeFeedrate |-> pf,
   startZ |-> sz, endZ |-> ez]

\* the options of the sessions: every length, with every option given or omitted
SessionOptions ==
  { Options(RowPoints(n), Num(500), Num(20), Num(5), Num(-5)) : n \in 0..MaxPoints }
    \cup { Options(RowPoints(n), Undefined, Undefined, Undefined, Undefined) :
             n \in 0..MaxPoints }

NoFile == [exists |-> FALSE, data |-> <<>>]
File(data) == [exists |-> TRUE, data |-> data]

\* files written by something else than save
ExternalFiles ==
  { \* three well-formed lines
    <<"1", " ", "2", " ", "1", " ", "0", " ", "0", " ", "0", " ", "0", " ", "0",
      " ", "0", "\n", "4", " ", "5", " ", "-", "2", " ", "0", " ", "0", " ", "0",
      " ", "0", " ", "0", " ", "0", "\n", "7", " ", "8", " ", "3">>,
    \* a line of two tokens between blank lines, and a line with a decimal
    <<"\n", "1", " ", "2", "\n", " ", "\n", "7", "\t", "8", " ", "-", ".", "5", "\r", "\n">>,
    \* a leading white space and a word
    <<" ", "1", " ", "2", " ", "3", "\n", "x", " ", "2", " ", "1", "e", "-", "7">>,
    \* no line at all
    <<>> }

(***************************************************************************)
(* The operations of the session.                                          *)
(***************************************************************************)
NoOptions == Options(<<>>, Undefined, Undefined, Undefined, Undefined)

\* no call of start is running, and the last one was given no callback
NoFrame == [pc |-> "idle", callback |-> FALSE, options |-> NoOptions,
            probeGCodes |-> <<>>]

StartIdle == frame = NoFrame /\ calls = <<>>

(***************************************************************************)
(* The objects.  An array of samples is [items]; a state object is         *)
(* [probePointCount, probedPositions, minZ, maxZ] with the index of its    *)
(* array for probedPositions.  Nothing is ever freed: an index stands for   *)
(* a reference somebody may still hold.                                    *)
(***************************************************************************)
NewArray(items) == [items |-> items]

\* the array and the object of the module's defaultState
DefaultArrayAt == 1
DefaultStateAt == 2

\* the heap of a new instance: defaultState, and state = {...defaultState}
NewHeap ==
  LET default == [probePointCount |-> 0, probedPositions |-> DefaultArrayAt,
                  minZ |-> Num(0), maxZ |-> Num(0)]
  IN <<NewArray(<<>>), default, default>>

\* this.state as a value: the object at index a with its array read
Deref(h, a) == [h[a] EXCEPT !.probedPositions = h[h[a].probedPositions].items]

\* setState(nextState): this.state = {...nextState}, a new object
HeapSetState(h, nextState) == Append(h, nextState)

\* resetState(): setState(defaultState)
HeapReset(h) == HeapSetState(h, h[DefaultStateAt])

\* start: resetState(), then setState({...this.state, probePointCount})
HeapStarted(h, o) ==
  LET h1 == HeapReset(h)
      literal == [h1[Len(h1)] EXCEPT !.probePointCount = Len(o.positions)]
  IN HeapSetState(Append(h1, literal), literal)

\* (a handler that pushes the sample onto the array it has)
HeapHandledPushes(h, s, pos) ==
  LET this == h[s]
      items == h[this.probedPositions].items
  IN IF Len(items) >= this.probePointCount THEN h
     ELSE LET h1 == [h EXCEPT ![this.probedPositions] =
                                 NewArray(Append(items, pos))]
              literal == IF Len(items) = 0
                         THEN [this EXCEPT !.minZ = pos.z, !.maxZ = pos.z]
                         ELSE [this EXCEPT !.minZ = MathMin(this.minZ, pos.z),
                                           !.maxZ = MathMax(this.maxZ, pos.z)]
          IN HeapSetState(Append(h1, literal), literal)

\* the probe_update handler: probedPositions.concat(pos) is a new array, the
\* object literal a new object, and setState copies it
HeapHandled(h, s, pos) ==
  LET this == h[s]
      items == h[this.probedPositions].items
  IN IF Len(items) >= this.probePointCount THEN h
     ELSE LET h1 == Append(h, NewArray(Append(items, pos)))
              literal == IF Len(items) = 0
                         THEN [this EXCEPT !.minZ = pos.z, !.maxZ = pos.z,
                                           !.probedPositions = Len(h1)]
                         ELSE [this EXCEPT !.minZ = MathMin(this.minZ, pos.z),
                                           !.maxZ = MathMax(this.maxZ, pos.z),
                                           !.probedPositions = Len(h1)]
          IN HeapSetState(Append(h1, literal), literal)

\* load: the local array probedPositions, the object literal, setState's copy
HeapLoaded(h, s, data) ==
  LET loaded == LoadedState(data)
      h1 == Append(h, NewArray(loaded.probedPositions))
      literal == [h[s] EXCEPT !.probePointCount = loaded.probePointCount,
                              !.probedPositions = Len(h1),
                              !.minZ = loaded.minZ,
                              !.maxZ = loaded.maxZ]
  IN HeapSetState(Append(h1, literal), literal)

\* the heap and this.state after an operation that leaves the heap as h
HeapBecomes(h) ==
  /\ Len(h) <= MaxObjects
  /\ heap' = h
  /\ self' = IF h = heap THEN self ELSE Len(h)

HeapNew == heap = NewHeap /\ self = Len(NewHeap)

Done(op, ret) ==
  /\ lastOp' = op
  /\ prev' = state
  /\ returned' = ret
  /\ threw' = FALSE
  /\ emitted' = <<>>

\* (a guard that lets one update too many through)
SaturatedOffByOne(st) == Len(st.probedPositions) > st.probePointCount

\* the guard of the probe_update handler
Saturated(st) == Len(st.probedPositions) >= st.probePointCount

\* (a handler without the branch for the first sample)
AbsorbedNoFirst(st, pos) ==
  [st EXCEPT !.minZ = MathMin(st.minZ, pos.z),
             !.maxZ = MathMax(st.maxZ, pos.z),
             !.probedPositions = Append(st.probedPositions, pos)]

\* (a handler that puts the new sample first)
AbsorbedInFront(st, pos) ==
  IF Len(st.probedPositions) = 0
  THEN [st EXCEPT !.minZ = pos.z,
                  !.maxZ = pos.z,
                  !.probedPositions = <<pos>> \o st.probedPositions]
  ELSE [st EXCEPT !.minZ = MathMin(st.minZ, pos.z),
                  !.maxZ = MathMax(st.maxZ, pos.z),
                  !.probedPositions = <<pos>> \o st.probedPositions]

\* the state the handler sets for an update it absorbs
Absorbed(st, pos) ==
  IF Len(st.probedPositions) = 0
  THEN [st EXCEPT !.minZ = pos.z,
                  !.maxZ = pos.z,
                  !.probedPositions = Append(st.probedPositions, pos)]
  ELSE [st EXCEPT !.minZ = MathMin(st.minZ, pos.z),
                  !.maxZ = MathMax(st.maxZ, pos.z),
                  !.probedPositions = Append(st.probedPositions, pos)]

\* (a handler that widens the envelope before it looks at the guard)
HandlerStateWidensFirst(st, pos) ==
  IF Saturated(st)
  THEN [st EXCEPT !.minZ = MathMin(st.minZ, pos.z),
                  !.maxZ = MathMax(st.maxZ, pos.z)]
  ELSE Absorbed(st, pos)

\* the state the handler leaves for an update delivered in state st
HandlerState(st, pos) == IF Saturated(st) THEN st ELSE Absorbed(st, pos)

\* the log line of the handler calls toFixed on pos.x, pos.y, pos.z, minZ and
\* maxZ: a TypeError when one of them is undefined or null
LogRaises(st, pos) ==
  \/ IsNil(pos.x) \/ IsNil(pos.y) \/ IsNil(pos.z)
  \/ IsNil(st.minZ) \/ IsNil(st.maxZ)

\* (a handler that emits before it looks at the guard)
HandlerEmitsAlways(st, pos) ==
  IF ~Saturated(st) /\ LogRaises(Absorbed(st, pos), pos)
  THEN <<>>
  ELSE <<"probe_end">>

\* the events the handler emits for an update delivered in state st: probe_end
\* is the last statement, behind the early return and the log line
HandlerEmits(st, pos) ==
  IF Saturated(st) \/ LogRaises(Absorbed(st, pos), pos)
  THEN <<>>
  ELSE <<"probe_end">>

\* (a start that sets the count without resetting first)
StartedNoReset(o) == [state EXCEPT !.probePointCount = Len(o.positions)]

\* the state after start's resetState and setState
Started(o) == [defaultState EXCEPT !.probePointCount = Len(o.positions)]

\* Each operation is given twice: as it acts on the session (...Op), and with
\* the heap left alone.  HeapSpec joins the first with what it allocates.
StartOp(o) ==
  /\ state' = Started(o)
  /\ options' = o
  /\ probeGCodes' = ProbeGCodes(o)
  /\ Done("start", "probeGCodes")
  /\ armed' = TRUE
  /\ sessionN' = Len(o.positions)
  /\ delivered' = <<>>
  /\ nUpdates' = 0
  /\ frame' = NoFrame
  /\ calls' = <<>>
  /\ UNCHANGED <<disk, gridVars>>

Start(o) == StartOp(o) /\ UNCHANGED heapVars

\* (a stop that drops the samples and keeps the expected count)
StopKeepsCount ==
  /\ state' = [defaultState EXCEPT !.probePointCount = state.probePointCount]
  /\ options' = NoOptions
  /\ probeGCodes' = <<>>
  /\ Done("stop", "undefined")
  /\ armed' = FALSE
  /\ delivered' = <<>>
  /\ nUpdates' = 0
  /\ UNCHANGED <<disk, sessionN, gridVars, startVars,
                 heapVars>>

StopOp ==
  /\ state' = defaultState
  /\ options' = NoOptions
  /\ probeGCodes' = <<>>
  /\ Done("stop", "undefined")
  /\ armed' = FALSE
  /\ delivered' = <<>>
  /\ nUpdates' = 0
  /\ UNCHANGED <<disk, sessionN, gridVars, startVars>>

Stop == StopOp /\ UNCHANGED heapVars

ResetStateOp ==
  /\ state' = defaultState
  /\ options' = NoOptions
  /\ probeGCodes' = <<>>
  /\ Done("resetState", "undefined")
  /\ armed' = FALSE
  /\ delivered' = <<>>
  /\ nUpdates' = 0
  /\ UNCHANGED <<disk, sessionN, gridVars, startVars>>

ResetState == ResetStateOp /\ UNCHANGED heapVars

\* emit('probe_update', {pos})
ProbeUpdateOp(pos) ==
  /\ lastOp' = "probe_update"
  /\ prev' = state
  /\ options' = NoOptions
  /\ returned' = "undefined"
  /\ probeGCodes' = <<>>
  /\ delivered' = IF armed /\ Len(delivered) < sessionN
                   THEN Append(delivered, pos)
                   ELSE delivered
  /\ nUpdates' = IF armed /\ nUpdates <= sessionN
                  THEN nUpdates + 1
                  ELSE nUpdates
  /\ state' = HandlerState(state, pos)
  /\ threw' = (~Saturated(state) /\ LogRaises(state', pos))
  /\ emitted' = HandlerEmits(state, pos)
  /\ UNCHANGED <<disk, armed, sessionN, gridVars, startVars>>

ProbeUpdate(pos) == ProbeUpdateOp(pos) /\ UNCHANGED heapVars

\* emit('probe_start'), emit('probe_end') from outside: the handlers are empty
ProbeStart ==
  /\ options' = NoOptions
  /\ probeGCodes' = <<>>
  /\ Done("probe_start", "undefined")
  /\ UNCHANGED <<state, disk, armed, sessionN, delivered, nUpdates, gridVars,
                 startVars,
                 heapVars>>

ProbeEnd ==
  /\ options' = NoOptions
  /\ probeGCodes' = <<>>
  /\ Done("probe_end", "undefined")
  /\ UNCHANGED <<state, disk, armed, sessionN, delivered, nUpdates, gridVars,
                 startVars,
                 heapVars>>

\* (a load that resets the state before it reads the file)
LoadResetsFirst(fault) ==
  /\ options' = NoOptions
  /\ probeGCodes' = <<>>
  /\ IF fault \/ ~disk.exists
     THEN /\ state' = defaultState
          /\ Done("load", "false")
          /\ UNCHANGED <<armed, delivered, nUpdates>>
     ELSE /\ state' = LoadedState(disk.data)
          /\ Done("load", "true")
          /\ armed' = FALSE
          /\ delivered' = <<>>
          /\ nUpdates' = 0
  /\ UNCHANGED <<disk, sessionN, gridVars, startVars,
                 heapVars>>

\* loadProbedPositionsFromFile(filepath); readFileSync raises when there is no
\* file or when it cannot be read (fault)
LoadOp(fault) ==
  /\ options' = NoOptions
  /\ probeGCodes' = <<>>
  /\ IF fault \/ ~disk.exists
     THEN /\ Done("load", "false")
          /\ UNCHANGED <<state, armed, delivered, nUpdates>>
     ELSE /\ state' = LoadedState(disk.data)
          /\ Done("load", "true")
          /\ armed' = FALSE
          /\ delivered' = <<>>
          /\ nUpdates' = 0
  /\ UNCHANGED <<disk, sessionN, gridVars, startVars>>

Load(fault) == LoadOp(fault) /\ UNCHANGED heapVars

\* saveProbedPositionsToFile(filepath); writeFileSync raises on a fault
SaveOp(fault) ==
  /\ options' = NoOptions
  /\ probeGCodes' = <<>>
  /\ IF fault
     THEN /\ Done("save", "false")
          /\ UNCHANGED disk
     ELSE /\ disk' = File(SavedData(state.probedPositions))
          /\ Done("save", "true")
  /\ UNCHANGED <<state, armed, sessionN, delivered, nUpdates, gridVars, startVars>>

Save(fault) == SaveOp(fault) /\ UNCHANGED heapVars

\* something else writes or removes the file
WriteFile(data) ==
  /\ disk' = File(data)
  /\ disk' # disk
  /\ UNCHANGED <<state, lastOp, prev, options, probeGCodes, returned, threw,
                 emitted, armed, sessionN, delivered, nUpdates, gridVars,
                 startVars,
                 heapVars>>

RemoveFile ==
  /\ disk.exists
  /\ disk' = NoFile
  /\ UNCHANGED <<state, lastOp, prev, options, probeGCodes, returned, threw,
                 emitted, armed, sessionN, delivered, nUpdates, gridVars,
                 startVars,
                 heapVars>>

GridIdle ==
  /\ gpc = "idle"
  /\ gopt = [startX |-> 0, endX |-> 0, stepX |-> 0,
             startY |-> 0, endY |-> 0, stepY |-> 0]
  /\ gx = 0
  /\ gy = 0
  /\ positions = <<>>

Init ==
  /\ state = defaultState
  /\ disk = NoFile
  /\ lastOp = "new"
  /\ prev = defaultState
  /\ options = NoOptions
  /\ probeGCodes = <<>>
  /\ returned = "undefined"
  /\ threw = FALSE
  /\ emitted = <<>>
  /\ armed = FALSE
  /\ sessionN = 0
  /\ delivered = <<>>
  /\ nUpdates = 0
  /\ StartIdle
  /\ HeapNew
  /\ GridIdle

Next ==
  \/ \E o \in SessionOptions : Start(o)
  \/ Stop
  \/ ResetState
  \/ \E pos \in ProbeInputs : ProbeUpdate(pos)
  \/ ProbeStart
  \/ ProbeEnd
  \/ \E fault \in BOOLEAN : Load(fault)
  \/ \E fault \in BOOLEAN :
       Len(state.probedPositions) <= MaxSavedLines /\ Save(fault)
  \/ \E data \in ExternalFiles : WriteFile(data)
  \/ RemoveFile

Spec == Init /\ [][Next]_vars

(***************************************************************************)
(* start as the synthesizer of the instruction stream: one call, with      *)
(* every combination of positions and options.                             *)
(***************************************************************************)
SynthPoints == {Point(0, 0), Point(10, 0), Point(-5, 20)}

RECURSIVE SeqsUpTo(_, _)
SeqsUpTo(S, n) ==
  IF n = 0 THEN {<<>>}
  ELSE LET shorter == SeqsUpTo(S, n - 1)
       IN shorter \cup {Append(q, e) : q \in {r \in shorter : Len(r) = n - 1}, e \in S}

StartOptions ==
  { Options(ps, f, pf, sz, ez) :
      ps \in SeqsUpTo(SynthPoints, MaxPoints),
      f \in {Undefined, Num(500)},
      pf \in {Undefined, Num(15)},
      sz \in {Undefined, Num(5)},
      ez \in {Undefined, Num(-5)} }

SynthNext == lastOp = "new" /\ \E o \in StartOptions : Start(o)

SynthSpec == Init /\ [][SynthNext]_vars

(***************************************************************************)
(* start as the caller of gcode: one call, with options and coordinates    *)
(* that are numbers (0 among them), undefined or null.                     *)
(***************************************************************************)
EmitPoints ==
  { Point(10, 0),
    [x |-> Undefined, y |-> Num(0)],
    [x |-> Null, y |-> Undefined] }

EmitOptions ==
  { Options(ps, f, pf, sz, ez) :
      ps \in SeqsUpTo(EmitPoints, MaxPoints),
      f \in {Undefined, Null, Num(0), Num(500)},
      pf \in {Undefined, Num(15)},
      sz \in {Undefined, Null, Num(5)},
      ez \in {Undefined, Dec(-5, 1)} }

EmitNext == lastOp = "new" /\ \E o \in EmitOptions : Start(o)

EmitSpec == Init /\ [][EmitNext]_vars

(***************************************************************************)
(* start(options, callback) with a function as callback, in two steps: up  *)
(* to the call of the callback, and from the callback's return on.  While  *)
(* the callback runs it may deliver probe_update events.                   *)
(*   frame.pc = "callback"  inside callback(probeGCodes)                   *)
(***************************************************************************)
\* (a start that hands out the instructions before it resets the state)
StartCallsBackFirst(o) ==
  /\ frame.pc = "idle"
  /\ state' = state
  /\ frame' = [pc |-> "callback", callback |-> TRUE, options |-> o,
               probeGCodes |-> ProbeGCodes(o)]
  /\ calls' = <<ProbeGCodes(o)>>
  /\ options' = o
  /\ probeGCodes' = <<>>
  /\ Done("start:callback", "pending")
  /\ armed' = TRUE
  /\ sessionN' = Len(o.positions)
  /\ delivered' = <<>>
  /\ nUpdates' = 0
  /\ UNCHANGED <<disk, gridVars,
                 heapVars>>

\* start, up to callback(probeGCodes)
StartWithCallback(o) ==
  /\ frame.pc = "idle"
  /\ state' = Started(o)
  /\ frame' = [pc |-> "callback", callback |-> TRUE, options |-> o,
               probeGCodes |-> ProbeGCodes(o)]
  /\ calls' = <<ProbeGCodes(o)>>
  /\ options' = o
  /\ probeGCodes' = <<>>
  /\ Done("start:callback", "pending")
  /\ armed' = TRUE
  /\ sessionN' = Len(o.positions)
  /\ delivered' = <<>>
  /\ nUpdates' = 0
  /\ UNCHANGED <<disk, gridVars,
                 heapVars>>

\* the callback has returned: return probeGCodes
StartReturn ==
  /\ frame.pc = "callback"
  /\ frame' = [frame EXCEPT !.pc = "idle"]
  /\ lastOp' = "start"
  /\ options' = frame.options
  /\ probeGCodes' = frame.probeGCodes
  /\ returned' = "probeGCodes"
  /\ threw' = FALSE
  /\ emitted' = <<>>
  /\ UNCHANGED <<state, disk, prev, armed, sessionN, delivered, nUpdates,
                 calls, gridVars,
                 heapVars>>

\* the callback has let through what a probe_update it delivered raised:
\* start raises it on
StartRaises ==
  /\ frame.pc = "callback"
  /\ lastOp = "probe_update"
  /\ threw
  /\ frame' = [frame EXCEPT !.pc = "idle"]
  /\ lastOp' = "start"
  /\ options' = frame.options
  /\ probeGCodes' = <<>>
  /\ returned' = "nothing"
  /\ threw' = TRUE
  /\ emitted' = <<>>
  /\ UNCHANGED <<state, disk, prev, armed, sessionN, delivered, nUpdates,
                 calls, gridVars,
                 heapVars>>

CallbackNext ==
  \/ \E o \in SessionOptions : StartWithCallback(o)
  \/ \E o \in SessionOptions : frame.pc = "idle" /\ Start(o)
  \/ \E pos \in ProbeInputs : ProbeUpdate(pos)
  \/ StartReturn
  \/ StartRaises

CallbackSpec == Init /\ [][CallbackNext]_vars

(***************************************************************************)
(* The operations with the objects they make: every state object and every *)
(* array of samples ever published stays on the heap, as an observer who   *)
(* holds a reference would see it.                                         *)
(***************************************************************************)
HeapStart(o) == StartOp(o) /\ HeapBecomes(HeapStarted(heap, o))

HeapStop == StopOp /\ HeapBecomes(HeapReset(heap))

HeapResetState == ResetStateOp /\ HeapBecomes(HeapReset(heap))

HeapProbeUpdate(pos) ==
  ProbeUpdateOp(pos) /\ HeapBecomes(HeapHandled(heap, self, pos))

HeapLoad(fault) ==
  /\ LoadOp(fault)
  /\ IF fault \/ ~disk.exists
     THEN UNCHANGED heapVars
     ELSE HeapBecomes(HeapLoaded(heap, self, disk.data))

\* save reads this.state.probedPositions and keeps nothing
HeapSave(fault) == SaveOp(fault) /\ UNCHANGED heapVars

HeapNext ==
  \/ \E o \in SessionOptions : HeapStart(o)
  \/ HeapStop
  \/ HeapResetState
  \/ \E pos \in ProbeInputs : HeapProbeUpdate(pos)
  \/ \E fault \in BOOLEAN : HeapLoad(fault)
  \/ \E fault \in BOOLEAN :
       Len(state.probedPositions) <= MaxSavedLines /\ HeapSave(fault)

HeapSpec == Init /\ [][HeapNext]_vars

(***************************************************************************)
(* save and load of a collected height map: a session that has absorbed    *)
(* its samples, then saves, loads and stops in any order.                  *)
(***************************************************************************)
\* measured positions: whole numbers, decimals, and heights close to 0
RoundTripSamples ==
  { Pos(Num(1), Num(2), Num(3)),
    Pos(Num(4), Num(5), Num(6)),
    Pos(Dec(-25, 1), Num(0), Dec(1, 3)),
    Pos(Num(0), Dec(125, 2), Dec(1, 6)),
    Pos(Num(10), Num(0), Dec(1, 7)) }

\* the state of a session of Len(samples) positions that has absorbed them
RECURSIVE Collected(_, _)
Collected(samples, n) ==
  IF n = 0
  THEN Started(Options(RowPoints(Len(samples)), Undefined, Undefined,
                       Undefined, Undefined))
  ELSE Absorbed(Collected(samples, n - 1), samples[n])

RoundTripInit ==
  \E samples \in SeqsUpTo(RoundTripSamples, MaxPoints) :
    LET n == Len(samples)
    IN /\ state = Collected(samples, n)
       /\ prev = Collected(samples, IF n = 0 THEN 0 ELSE n - 1)
       /\ disk = NoFile
       /\ lastOp = "probe_update"
       /\ options = NoOptions
       /\ probeGCodes = <<>>
       /\ returned = "undefined"
       /\ threw = FALSE
       /\ emitted = IF n = 0 THEN <<>> ELSE <<"probe_end">>
       /\ armed = TRUE
       /\ sessionN = n
       /\ delivered = samples
       /\ nUpdates = IF n = 0 THEN 1 ELSE n
       /\ StartIdle
       /\ HeapNew
       /\ GridIdle

RoundTripNext ==
  \/ \E fault \in BOOLEAN : Save(fault)
  \/ \E fault \in BOOLEAN : Load(fault)
  \/ Stop

RoundTripSpec == RoundTripInit /\ [][RoundTripNext]_vars

(***************************************************************************)
(* load as the parser of a file: a new instance, and at the path a file of  *)
(* any lines of ParseLines.                                                *)
(***************************************************************************)
ParseLines ==
  { <<"1", " ", "2">>,
    <<" ", "1", " ", "2">>,
    <<"7">>,
    <<"4", " ", "5", " ", "-", "2", " ", "0", " ", "0", " ", "0", " ", "0",
      " ", "0", " ", "0">>,
    <<>>,
    <<"3", "\t", "-", ".", "5", "\r">> }

\* lines.join('\n')
RECURSIVE JoinLines(_)
JoinLines(lines) ==
  IF lines = <<>> THEN <<>>
  ELSE IF Len(lines) = 1 THEN lines[1]
  ELSE lines[1] \o <<"\n">> \o JoinLines(Tail(lines))

ParseInit ==
  /\ state = defaultState
  /\ \E lines \in SeqsUpTo(ParseLines, MaxPoints) : disk = File(JoinLines(lines))
  /\ lastOp = "new"
  /\ prev = defaultState
  /\ options = NoOptions
  /\ probeGCodes = <<>>
  /\ returned = "undefined"
  /\ threw = FALSE
  /\ emitted = <<>>
  /\ armed = FALSE
  /\ sessionN = 0
  /\ delivered = <<>>
  /\ nUpdates = 0
  /\ StartIdle
  /\ HeapNew
  /\ GridIdle

ParseNext == \E fault \in BOOLEAN : Load(fault)

ParseSpec == ParseInit /\ [][ParseNext]_vars

(***************************************************************************)
(* getProbeXYPositions(options), one step of its loops at a time.          *)
(*   gpc = "outer"  at the test y <= endY                                  *)
(*   gpc = "inner"  at the test x <= endX                                  *)
(*   gpc = "done"   returned positions                                     *)
(*   gpc = "exhausted"  the list outgrew the memory: the process is gone   *)
(***************************************************************************)
StepValues == {-1, 0, 1, 2}

\* the memory holds a list longer than any grid of the coordinates drawn
HeapLimit == (MaxCoord + 1) * (MaxCoord + 1) + 1

\* the options drawn.  A negative step is drawn with start <= end on both
\* axes: every pass of the outer loop then pushes, and the call ends with the
\* memory.
GridOptions ==
  { o \in [startX : 0..MaxCoord, endX : 0..MaxCoord, stepX : StepValues,
           startY : 0..MaxCoord, endY : 0..MaxCoord, stepY : StepValues] :
      (o.stepX < 0 \/ o.stepY < 0) => (o.startX <= o.endX /\ o.startY <= o.endY) }

GridCall(o) ==
  /\ gpc = "idle"
  /\ gopt' = o
  /\ positions' = <<>>
  /\ gy' = o.startY
  /\ gx' = gx
  /\ gpc' = "outer"
  /\ UNCHANGED sessionVars

\* (an outer loop that stops before the row at endY)
GridOuterExclusive ==
  /\ gpc = "outer"
  /\ IF gy < gopt.endY
     THEN /\ gx' = gopt.startX
          /\ gpc' = "inner"
     ELSE /\ gx' = gx
          /\ gpc' = "done"
  /\ UNCHANGED <<gopt, gy, positions, sessionVars>>

\* for (...; y <= endY; ...)
GridOuter ==
  /\ gpc = "outer"
  /\ IF gy <= gopt.endY
     THEN /\ gx' = gopt.startX
          /\ gpc' = "inner"
     ELSE /\ gx' = gx
          /\ gpc' = "done"
  /\ UNCHANGED <<gopt, gy, positions, sessionVars>>

\* for (...; x <= endX; x += stepX) positions.push({ x, y }), then y += stepY
GridInner ==
  /\ gpc = "inner"
  /\ IF gx <= gopt.endX
     THEN IF Len(positions) < HeapLimit
          THEN /\ positions' = Append(positions, [x |-> gx, y |-> gy])
               /\ gx' = gx + gopt.stepX
               /\ UNCHANGED <<gpc, gy>>
          ELSE /\ gpc' = "exhausted"
               /\ UNCHANGED <<gx, gy, positions>>
     ELSE /\ gy' = gy + gopt.stepY
          /\ gpc' = "outer"
          /\ UNCHANGED <<gx, positions>>
  /\ UNCHANGED <<gopt, sessionVars>>

GridNext ==
  \/ \E o \in GridOptions : GridCall(o)
  \/ GridOuter
  \/ GridInner

\* the call runs on once made: JavaScript runs a function to its end
GridSpec == Init /\ [][GridNext]_vars /\ WF_vars(GridNext)


(***************************************************************************)
(* The claims.                                                             *)
(***************************************************************************)
Min(a, b) == IF a < b THEN a ELSE b
Last(q) == q[Len(q)]
AllNumericZ(samples) == \A i \in 1..Len(samples) : IsNumber(samples[i].z)
HasXYZ(pos) == ~IsNil(pos.x) /\ ~IsNil(pos.y) /\ ~IsNil(pos.z)
CountReached(st) == Len(st.probedPositions) >= st.probePointCount

\* C1: in every reachable state the number of recorded samples is at most the
\* expected count: len(probedPositions) <= probePointCount.
C1_CountBound == Len(state.probedPositions) <= state.probePointCount

\* a session of two positions has absorbed its second sample
C1_Witness ==
  /\ lastOp = "probe_update"
  /\ armed
  /\ state.probePointCount = 2
  /\ Len(prev.probedPositions) = 1
  /\ Len(state.probedPositions) = 2

\* C2: a probe_update delivered once the expected count of samples is
\* recorded leaves the whole state as it was: probePointCount,
\* probedPositions, minZ and maxZ.
C2_SaturatedUpdateChangesNothing ==
  (lastOp = "probe_update" /\ CountReached(prev)) => state = prev

\* the update after the last expected one of a started session was delivered
C2_Witness ==
  /\ lastOp = "probe_update"
  /\ armed
  /\ sessionN >= 1
  /\ nUpdates = sessionN + 1
  /\ Len(state.probedPositions) = sessionN

\* minZ is the least z of the samples
IsMinOf(v, samples) ==
  /\ IsNumber(v)
  /\ \E i \in 1..Len(samples) : samples[i].z = v
  /\ \A i \in 1..Len(samples) : ~NumLess(samples[i].z, v)

\* maxZ is the greatest z of the samples
IsMaxOf(v, samples) ==
  /\ IsNumber(v)
  /\ \E i \in 1..Len(samples) : samples[i].z = v
  /\ \A i \in 1..Len(samples) : ~NumLess(v, samples[i].z)

\* C3: in every reachable state that holds at least one sample and whose
\* samples all have a numeric z, minZ is the minimum and maxZ the maximum of
\* the z of the recorded samples (so the first sample sets both to its z).
C3_EnvelopeIsMinMax ==
  (Len(state.probedPositions) >= 1 /\ AllNumericZ(state.probedPositions))
    => /\ IsMinOf(state.minZ, state.probedPositions)
       /\ IsMaxOf(state.maxZ, state.probedPositions)

\* a second sample was absorbed and lies apart from the first
C3_Witness ==
  /\ lastOp = "probe_update"
  /\ Len(state.probedPositions) = 2
  /\ Len(prev.probedPositions) = 1
  /\ AllNumericZ(state.probedPositions)
  /\ NumLess(state.minZ, state.maxZ)

\* C4: while a started session is not stopped, reset or replaced by a load,
\* probedPositions is the first min(k, N) of the k pos delivered, in delivery
\* order, so the session is complete exactly from the N-th update on.
C4_SamplesAreDeliveredPrefix ==
  armed =>
    /\ state.probePointCount = sessionN
    /\ state.probedPositions = delivered
    /\ Len(state.probedPositions) = Min(nUpdates, sessionN)
    /\ (Len(state.probedPositions) = state.probePointCount) <=> (nUpdates >= sessionN)

\* two different samples, then one more update than the session expects
C4_Witness ==
  /\ armed
  /\ sessionN = 2
  /\ nUpdates = 3
  /\ Len(state.probedPositions) = 2
  /\ state.probedPositions[1] # state.probedPositions[2]

\* C5 as claimed: stop leaves {0, empty, undefined, undefined} and start begins
\* from it, so minZ and maxZ are undefined right after either.
C5_ResetToUndefined ==
  /\ lastOp \in {"stop", "resetState"} =>
       state = [probePointCount |-> 0, probedPositions |-> <<>>,
                minZ |-> Undefined, maxZ |-> Undefined]
  /\ lastOp = "start" =>
       /\ state.probedPositions = <<>>
       /\ state.minZ = Undefined
       /\ state.maxZ = Undefined

\* C5 (amended): from any prior state stop and resetState leave the state
\* {probePointCount = 0, probedPositions empty, minZ = 0, maxZ = 0}, the state
\* of a new instance, and start begins from it: right after start the samples
\* are empty and minZ = maxZ = 0.
C5_ResetToDefaults ==
  /\ lastOp \in {"new", "stop", "resetState"} =>
       state = [probePointCount |-> 0, probedPositions |-> <<>>,
                minZ |-> Num(0), maxZ |-> Num(0)]
  /\ lastOp = "start" =>
       state = [probePointCount |-> sessionN, probedPositions |-> <<>>,
                minZ |-> Num(0), maxZ |-> Num(0)]

\* stop in the middle of a collection whose envelope was not 0
C5_Witness ==
  /\ lastOp = "stop"
  /\ Len(prev.probedPositions) >= 1
  /\ Len(prev.probedPositions) < prev.probePointCount
  /\ prev.minZ # Num(0)

\* C6: from every prior state start leaves probedPositions empty and
\* probePointCount equal to the number of positions given, and the session it
\* begins absorbs exactly that many of the updates that follow.
C6_StartSupersedes ==
  /\ lastOp = "start" =>
       /\ state.probedPositions = <<>>
       /\ state.probePointCount = Len(options.positions)
       /\ sessionN = Len(options.positions)
  /\ armed => Len(state.probedPositions) = Min(nUpdates, sessionN)

\* start in the middle of a collection
C6_Witness ==
  /\ lastOp = "start"
  /\ Len(prev.probedPositions) >= 1
  /\ Len(prev.probedPositions) < prev.probePointCount
  /\ Len(options.positions) >= 1

\* C7 as claimed: every probe_update delivered makes the session emit
\* probe_end exactly once.
C7_EveryUpdateEmits == lastOp = "probe_update" => emitted = <<"probe_end">>

\* C7 (amended): the session emits probe_end exactly once for a probe_update
\* it absorbs and whose pos has x, y and z, whether or not that update
\* completes the grid; an update delivered when the count is reached emits
\* nothing, an absorbed update whose pos lacks x, y or z raises before the
\* emit, and no other operation emits.
C7_AbsorbedUpdateEmits ==
  /\ lastOp = "probe_update" =>
       IF CountReached(prev)
       THEN emitted = <<>> /\ ~threw
       ELSE IF HasXYZ(Last(state.probedPositions))
       THEN emitted = <<"probe_end">> /\ ~threw
       ELSE emitted = <<>> /\ threw
  /\ lastOp # "probe_update" => emitted = <<>>

\* an absorbed update that does not complete the grid has emitted probe_end
C7_Witness ==
  /\ lastOp = "probe_update"
  /\ emitted = <<"probe_end">>
  /\ Len(state.probedPositions) = Len(prev.probedPositions) + 1
  /\ Len(state.probedPositions) < state.probePointCount

\* C8 as claimed: a probe_update delivered below the expected count, also one
\* whose pos has no z, x or y, completes without raising, appends the sample
\* and emits probe_end.
C8_UpdateNeverRaises ==
  (lastOp = "probe_update" /\ ~CountReached(prev)) =>
    /\ ~threw
    /\ Len(state.probedPositions) = Len(prev.probedPositions) + 1
    /\ emitted = <<"probe_end">>

Marker(i) == "(Auto Leveling: probing point " \o Str(ToText(Num(i))) \o ")"
Given(v, d) == IF v = Undefined THEN Num(d) ELSE v
Txt(v) == Str(ToText(v))

\* the lines C9 describes for the position at index i (0-based)
C9_Block(o, i) ==
  LET p == o.positions[i + 1]
      retract == "G0 Z" \o Txt(Given(o.startZ, 0))
      rapid == "G0 X" \o Txt(p.x) \o " Y" \o Txt(p.y)
                 \o (IF o.feedrate = Undefined THEN ""
                     ELSE " F" \o Txt(o.feedrate))
      pf == Given(o.probeFeedrate, 20)
      probe(f) == "G38.2 Z" \o Txt(Given(o.endZ, 0)) \o " F" \o Txt(f)
  IN IF i = 0
     THEN <<Marker(0), "G90", retract, rapid, probe(Dec(pf.m * 5, pf.e + 1)),
            retract>>
     ELSE <<Marker(i), "G90", rapid, probe(pf), retract>>

IsProbeMove(line) == Len(line) >= 5 /\ SubSeq(line, 1, 5) = "G38.2"

\* the place of block i in the stream: block 0 has six lines, the others five
C9_Offset(i) == IF i = 0 THEN 0 ELSE 5 * i + 1

\* C9: for N positions start returns the blocks of the positions in order;
\* block 0 is marker, G90, retract to startZ, rapid to X Y at feedrate, probe to
\* endZ at probeFeedrate / 2, retract; every later block is marker, G90, rapid,
\* probe at probeFeedrate, retract: 5N + 1 lines for N >= 1 and none for N = 0,
\* with probeFeedrate 20, startZ 0 and endZ 0 when omitted.
C9_StreamShape ==
  lastOp = "start" =>
    LET n == Len(options.positions)
    IN /\ Len(probeGCodes) = IF n = 0 THEN 0 ELSE 5 * n + 1
       /\ \A i \in 0..(n - 1) :
            SubSeq(probeGCodes, C9_Offset(i) + 1, C9_Offset(i + 1))
              = C9_Block(options, i)
       /\ \A k \in 1..Len(probeGCodes) :
            IsProbeMove(probeGCodes[k])
              => /\ k < Len(probeGCodes)
                 /\ probeGCodes[k + 1] = "G0 Z" \o Txt(Given(options.startZ, 0))

\* two positions, the probe feedrate omitted
C9_Witness ==
  /\ lastOp = "start"
  /\ Len(options.positions) = 2
  /\ options.probeFeedrate = Undefined
  /\ options.feedrate = Num(500)
  /\ Len(probeGCodes) = 11
  /\ probeGCodes[5] = "G38.2 Z-5 F10"
  /\ probeGCodes[10] = "G38.2 Z-5 F20"

\* C10 as claimed: every call of the grid planner returns, a non-positive step
\* included.
C10_PlanGridReturns == <>(gpc = "done")

\* the number of values start, start + step, ... that are <= end
C11_Count(start, end, step) ==
  IF start <= end THEN ((end - start) \div step) + 1 ELSE 0

\* the grid C11 describes: row k \div nx, column k % nx
C11_Grid(o) ==
  LET nx == C11_Count(o.startX, o.endX, o.stepX)
      ny == C11_Count(o.startY, o.endY, o.stepY)
  IN [k \in 1..(nx * ny) |->
        [x |-> o.startX + ((k - 1) % nx) * o.stepX,
         y |-> o.startY + ((k - 1) \div nx) * o.stepY]]

\* C11: for positive integer steps the grid planner returns exactly the points
\* (startX + i*stepX, startY + j*stepY) with x <= endX and y <= endY, row by
\* row (all x ascending for the lowest y, then the next y), without duplicates;
\* their number is (floor((endX-startX)/stepX)+1) * (floor((endY-startY)/stepY)+1)
\* when startX <= endX and startY <= endY, and none when startX > endX or
\* startY > endY.
C11_GridResult ==
  (gpc = "done" /\ gopt.stepX > 0 /\ gopt.stepY > 0) =>
    /\ positions = C11_Grid(gopt)
    /\ \A i, j \in 1..Len(positions) : positions[i] = positions[j] => i = j
    /\ \A i \in 1..Len(positions) :
         /\ positions[i].x <= gopt.endX
         /\ positions[i].y <= gopt.endY
    /\ (gopt.startX > gopt.endX \/ gopt.startY > gopt.endY) => positions = <<>>
    /\ (gopt.startX <= gopt.endX /\ gopt.startY <= gopt.endY) =>
         Len(positions) = (((gopt.endX - gopt.startX) \div gopt.stepX) + 1)
                            * (((gopt.endY - gopt.startY) \div gopt.stepY) + 1)

\* the grid of the example, scaled: three columns and two rows
C11_Witness ==
  /\ gpc = "done"
  /\ gopt = [startX |-> 0, endX |-> 2, stepX |-> 1,
             startY |-> 0, endY |-> 2, stepY |-> 2]
  /\ positions = << [x |-> 0, y |-> 0], [x |-> 1, y |-> 0], [x |-> 2, y |-> 0],
                    [x |-> 0, y |-> 2], [x |-> 1, y |-> 2], [x |-> 2, y |-> 2] >>

\* a step of load: the last operation is load and the file is as it was
\* (a step of something else writing or removing the file changes the file)
LoadStep == lastOp' = "load" /\ disk' = disk

\* C12: a load that hits an I/O fault (here: no file at the path, or a read
\* that fails) returns false, raises nothing and leaves probePointCount,
\* probedPositions, minZ and maxZ as they were, from every prior state.
C12_FailedLoadPreserves ==
  [][ LoadStep =>
        /\ returned' \in {"true", "false"}
        /\ ~threw'
        /\ ~disk.exists => returned' = "false"
        /\ returned' = "false" =>
             /\ state' = state
             /\ prev' = state
             /\ emitted' = <<>> ]_vars

\* a load of a missing file in the middle of a collection
C12_Witness ==
  /\ lastOp = "load"
  /\ returned = "false"
  /\ ~disk.exists
  /\ armed
  /\ state = prev
  /\ Len(state.probedPositions) = 1
  /\ state.probePointCount = 2
  /\ state.minZ # Num(0)

\* the k-th member of a set of numbers, in ascending order
Nth(S, k) == CHOOSE i \in S : Cardinality({j \in S : j < i}) = k - 1

\* where the lines of a text begin: at its start and behind every line feed
TextLineStarts(data) == {i \in 1..(Len(data) + 1) : i = 1 \/ data[i - 1] = "\n"}

\* the line that begins at i
TextLineAt(data, i) ==
  LET stop == CHOOSE j \in (i - 1)..Len(data) :
                /\ j = Len(data) \/ data[j + 1] = "\n"
                /\ \A k \in i..j : data[k] # "\n"
  IN SubSeq(data, i, stop)

\* the non-blank lines of a text, in order
TextLines(data) ==
  LET starts == {i \in TextLineStarts(data) :
                   \E k \in 1..Len(TextLineAt(data, i)) :
                     TextLineAt(data, i)[k] \notin WhiteSpace}
  IN [k \in 1..Cardinality(starts) |-> TextLineAt(data, Nth(starts, k))]

\* the tokens of a line: its maximal runs without white space, in order
Tokens(line) ==
  LET starts == {i \in 1..Len(line) :
                   /\ line[i] \notin WhiteSpace
                   /\ i = 1 \/ line[i - 1] \in WhiteSpace}
      stop(i) == CHOOSE j \in i..Len(line) :
                   /\ j = Len(line) \/ line[j + 1] \in WhiteSpace
                   /\ \A k \in i..j : line[k] \notin WhiteSpace
  IN [k \in 1..Cardinality(starts) |->
        SubSeq(line, Nth(starts, k), stop(Nth(starts, k)))]

AllNumeric(tokens) == \A k \in 1..Len(tokens) : IsNumberText(tokens[k])
Indented(line) == line # <<>> /\ line[1] \in WhiteSpace

\* a line as save writes it and as the file format has it: at least three
\* tokens, all numeric, the first at the start of the line
WellFormed(line) ==
  /\ ~Indented(line)
  /\ Len(Tokens(line)) >= 3
  /\ AllNumeric(Tokens(line))

\* C13: a load that returns true replaces the state: probePointCount is the
\* number of non-blank lines of the file, probedPositions holds one sample per
\* non-blank line in file order (x, y, z the first three fields of a well-formed
\* line) and nothing of the prior state, minZ and maxZ are the minimum and the
\* maximum of the parsed z (an absent z poisons both); so the count is reached,
\* and every probe_update delivered before the next start is ignored.
C13_LoadReplaces ==
  /\ [][ (LoadStep /\ returned' = "true") =>
           LET lines == TextLines(disk.data)
               samples == state'.probedPositions
           IN /\ disk.exists
              /\ state'.probePointCount = Len(lines)
              /\ Len(samples) = Len(lines)
              /\ \A k \in 1..Len(lines) :
                   WellFormed(lines[k]) =>
                     samples[k] = [x |-> NumberOf(Tokens(lines[k])[1]),
                                   y |-> NumberOf(Tokens(lines[k])[2]),
                                   z |-> NumberOf(Tokens(lines[k])[3])]
              /\ (Len(samples) >= 1 /\ AllNumericZ(samples)) =>
                   /\ IsMinOf(state'.minZ, samples)
                   /\ IsMaxOf(state'.maxZ, samples)
              /\ ~AllNumericZ(samples) => state'.minZ = NaN /\ state'.maxZ = NaN
              /\ ~armed'
              /\ Len(samples) = state'.probePointCount ]_vars
  /\ [][ (lastOp' = "probe_update" /\ ~armed) => state' = state ]_vars

\* a load of three well-formed lines in the middle of a collection, and an
\* update after it
C13_Witness ==
  /\ lastOp = "probe_update"
  /\ ~armed
  /\ disk.exists
  /\ state = LET n(v) == [t |-> "number", m |-> v, e |-> 0]
             IN [probePointCount |-> 3,
                 probedPositions |-> << [x |-> n(1), y |-> n(2), z |-> n(1)],
                                        [x |-> n(4), y |-> n(5), z |-> n(-2)],
                                        [x |-> n(7), y |-> n(8), z |-> n(3)] >>,
                 minZ |-> n(-2),
                 maxZ |-> n(3)]

AllNumericXYZ(samples) ==
  \A i \in 1..Len(samples) :
    IsNumber(samples[i].x) /\ IsNumber(samples[i].y) /\ IsNumber(samples[i].z)

\* C14 as claimed: for every sequence (also the empty one) of samples with
\* numeric x, y and z, a save that returns true followed by a load of the file
\* that returns true leaves probedPositions with as many samples, in the same
\* order, with equal x, y and z.
C14_RoundTrip ==
  [][ ( /\ lastOp = "save"
        /\ returned = "true"
        /\ AllNumericXYZ(state.probedPositions)
        /\ LoadStep
        /\ returned' = "true" )
      => /\ Len(state'.probedPositions) = Len(state.probedPositions)
         /\ \A i \in 1..Len(state.probedPositions) :
              /\ state'.probedPositions[i].x = state.probedPositions[i].x
              /\ state'.probedPositions[i].y = state.probedPositions[i].y
              /\ state'.probedPositions[i].z = state.probedPositions[i].z ]_vars

\* every line of a text, the blank ones too, in order
AllTextLines(data) ==
  LET starts == TextLineStarts(data)
  IN [k \in 1..Cardinality(starts) |-> TextLineAt(data, Nth(starts, k))]

\* the line is the given fields with one space between them, and nothing else
IsFieldsLine(line, fields) ==
  /\ Tokens(line) = fields
  /\ Cardinality({i \in 1..Len(line) : line[i] = " "}) = Len(fields) - 1
  /\ \A i \in 1..Len(line) : line[i] \in WhiteSpace => line[i] = " "
  /\ ~Indented(line)
  /\ line[Len(line)] # " "

\* C15: a save that returns true has written one line per sample of
\* probedPositions, in order, each line the nine fields x y z 0 0 0 0 0 0 with
\* one space between them, in place of whatever the file held; a save returns
\* true or false, never raises, and leaves the state as it was either way.
C15_SaveWritesLines ==
  [][ lastOp' = "save" =>
        /\ returned' \in {"true", "false"}
        /\ ~threw'
        /\ state' = state
        /\ returned' = "true" =>
             LET samples == state.probedPositions
                 lines == AllTextLines(disk'.data)
             IN /\ disk'.exists
                /\ samples = <<>> => disk'.data = <<>>
                /\ samples # <<>> =>
                     /\ Len(lines) = Len(samples)
                     /\ \A k \in 1..Len(samples) :
                          IsFieldsLine(lines[k],
                            << ToText(samples[k].x), ToText(samples[k].y),
                               ToText(samples[k].z), <<"0">>, <<"0">>, <<"0">>,
                               <<"0">>, <<"0">>, <<"0">> >>) ]_vars

\* two different samples were saved over the file they had been loaded from
C15_Witness ==
  /\ lastOp = "save"
  /\ returned = "true"
  /\ ~armed
  /\ Len(state.probedPositions) = 2
  /\ state.probedPositions[1] # state.probedPositions[2]
  /\ disk.exists
  /\ Len(AllTextLines(disk.data)) = 2

\* the value of the i-th token, absent when there are fewer tokens
FieldOf(tokens, i) == IF i <= Len(tokens) THEN NumberOf(tokens[i]) ELSE Undefined

\* C16 as claimed: a load of a file with a line of only k < 3 numeric tokens
\* (separated by white space) that returns true has not raised, and has made of
\* that line a sample whose first k fields are the tokens and whose other
\* fields are absent, whatever the other lines are.
C16_TolerantParse ==
  [][ (LoadStep /\ returned' = "true") =>
        /\ ~threw'
        /\ LET lines == TextLines(disk.data)
           IN /\ Len(state'.probedPositions) = Len(lines)
              /\ \A k \in 1..Len(lines) :
                   (AllNumeric(Tokens(lines[k])) /\ Len(Tokens(lines[k])) < 3) =>
                     state'.probedPositions[k]
                       = [x |-> FieldOf(Tokens(lines[k]), 1),
                          y |-> FieldOf(Tokens(lines[k]), 2),
                          z |-> Undefined] ]_vars

\* the session is cancelled: no session is running, and the state holds no
\* sample, expects none, and has the envelope of a reset
Cancelled ==
  /\ ~armed
  /\ state = [probePointCount |-> 0, probedPositions |-> <<>>,
              minZ |-> Num(0), maxZ |-> Num(0)]

\* C17: a probe_update delivered when the count is reached emits no probe_end,
\* raises nothing and changes nothing; stop, from every state, cancels the
\* session, and a cancelled session stays so, with nothing emitted, through
\* every probe_update (and every other operation) until the next start or load:
\* late events add no sample and do not move minZ or maxZ.
C17_IgnoredSilentStopCancels ==
  /\ [][ (lastOp' = "probe_update" /\ disk' = disk /\ CountReached(state)) =>
           /\ state' = state
           /\ emitted' = <<>>
           /\ ~threw' ]_vars
  /\ [][ lastOp' = "stop" => Cancelled' ]_vars
  /\ [][ (Cancelled /\ lastOp' \notin {"start", "load"}) =>
           Cancelled' /\ emitted' = <<>> ]_vars

\* a session of two positions was started and then stopped, and an update
\* came late
C17_Witness ==
  /\ lastOp = "probe_update"
  /\ Cancelled
  /\ sessionN = 2
  /\ prev = state
  /\ emitted = <<>>
  /\ ~threw

\* C18: when start calls its callback the state is already
\* {probePointCount = len(positions), probedPositions = empty}, so a
\* probe_update delivered from inside the callback is absorbed into the new
\* session; the callback is called exactly once, with the sequence start then
\* returns (and never when none is given), and start itself emits no event.
C18_ArmedBeforeCallback ==
  /\ lastOp = "start:callback" =>
       /\ frame.pc = "callback"
       /\ state.probePointCount = Len(options.positions)
       /\ state.probedPositions = <<>>
       /\ calls = <<frame.probeGCodes>>
  /\ frame.pc = "callback" =>
       /\ Len(calls) = 1
       /\ state.probePointCount = Len(frame.options.positions)
       /\ state.probedPositions = delivered
       /\ Len(delivered) = Min(nUpdates, Len(frame.options.positions))
  /\ (lastOp = "start" /\ frame.callback /\ ~threw) =>
       /\ returned = "probeGCodes"
       /\ calls = <<probeGCodes>>
  /\ (lastOp = "start" /\ ~frame.callback) => calls = <<>>
  /\ lastOp \in {"start", "start:callback"} => emitted = <<>>

\* a start with two positions has returned the sequence it gave its callback,
\* and the callback had delivered an update that was absorbed
C18_Witness ==
  /\ lastOp = "start"
  /\ frame.callback
  /\ returned = "probeGCodes"
  /\ calls = <<probeGCodes>>
  /\ Len(probeGCodes) = 11
  /\ prev.probePointCount = 2
  /\ prev.probedPositions = <<>>
  /\ state.probePointCount = 2
  /\ Len(state.probedPositions) = 1

\* C19: no operation changes in place a state object or an array of samples
\* it has published: every object keeps the value it was made with, so an
\* observer who holds a state object and its probedPositions from before an
\* operation reads the same values after every later operation; the shared
\* defaultState and its array stay {0, empty, 0, 0}; and this.state is what the
\* operations say it is, read through the newest object.
C19_ReplaceDontMutate ==
  /\ [][ /\ Len(heap') >= Len(heap)
         /\ \A a \in 1..Len(heap) : heap'[a] = heap[a] ]_vars
  /\ [](Deref(heap, 2) = [probePointCount |-> 0, probedPositions |-> <<>>,
                          minZ |-> Num(0), maxZ |-> Num(0)])
  /\ [](state = Deref(heap, self))

\* a session was started on the array of defaultState and has absorbed two
\* samples, each into a new array: the object start published still points
\* at the empty array, and the object of the first sample at the array of one
C19_Witness ==
  /\ lastOp = "probe_update"
  /\ Len(state.probedPositions) = 2
  /\ \E a, b \in 1..Len(heap) :
       /\ a < b
       /\ b < self
       /\ DOMAIN heap[a] = DOMAIN heap[self]
       /\ DOMAIN heap[b] = DOMAIN heap[self]
       /\ heap[a].probePointCount = 2
       /\ heap[a].probedPositions = 1
       /\ heap[1].items = <<>>
       /\ heap[b].probedPositions # heap[self].probedPositions
       /\ Len(heap[heap[b].probedPositions].items) = 1

Present(v) == v # Undefined /\ v # Null

\* the items of a line: for every (letter, value) with a value that is there,
\* in order, a space, the letter and the value
RECURSIVE C20_Items(_)
C20_Items(params) ==
  IF params = <<>> THEN ""
  ELSE (IF Present(params[1][2])
          THEN " " \o params[1][1] \o Txt(params[1][2])
          ELSE "")
         \o C20_Items(Tail(params))

C20_Line(cmd, params) == cmd \o C20_Items(params)

\* the lines start pushes for the position at index i, by C20's rule
C20_Block(o, i) ==
  LET p == o.positions[i + 1]
      sz == Given(o.startZ, 0)
      pf == Given(o.probeFeedrate, 20)
      retract == C20_Line("G0", << <<"Z", sz>> >>)
      rapid == C20_Line("G0", << <<"X", p.x>>, <<"Y", p.y>>, <<"F", o.feedrate>> >>)
      probe(f) == C20_Line("G38.2", << <<"Z", Given(o.endZ, 0)>>, <<"F", f>> >>)
  IN IF i = 0
     THEN <<Marker(0), "G90", retract, rapid, probe(Dec(pf.m * 5, pf.e + 1)),
            retract>>
     ELSE <<Marker(i), "G90", rapid, probe(pf), retract>>

C20_Letters == {"X", "Y", "F"}
C20_Values == {Undefined, Null, Num(0), Dec(-25, 1)}

\* C20: a line is the command followed by one item LETTERvalue, after a
\* space, for every parameter whose value is neither null nor undefined, in
\* the order of the parameters (a 0 is kept); an absent value adds nothing,
\* and with no item left the line is the bare command, with no space at its
\* end.  So a start without feedrate makes XY moves with X and Y and no F.
C20_AbsentParamsOmitted ==
  /\ \A a, b \in C20_Letters \X C20_Values :
       /\ gcode("G1", <<>>) = "G1"
       /\ gcode("G1", <<Param(a[1], a[2])>>) = C20_Line("G1", <<a>>)
       /\ a[1] # b[1] =>
            gcode("G1", <<Param(a[1], a[2]), Param(b[1], b[2])>>)
              = C20_Line("G1", <<a, b>>)
  /\ lastOp = "start" =>
       /\ \A i \in 0..(Len(options.positions) - 1) :
            SubSeq(probeGCodes, C9_Offset(i) + 1, C9_Offset(i + 1))
              = C20_Block(options, i)
       /\ \A k \in 1..Len(probeGCodes) :
            SubSeq(probeGCodes[k], Len(probeGCodes[k]), Len(probeGCodes[k])) # " "
       /\ ~Present(options.feedrate) =>
            \A i \in 0..(Len(options.positions) - 1) :
              LET p == options.positions[i + 1]
              IN probeGCodes[C9_Offset(i) + (IF i = 0 THEN 4 ELSE 3)]
                   = "G0" \o (IF Present(p.x) THEN " X" \o Txt(p.x) ELSE "")
                          \o (IF Present(p.y) THEN " Y" \o Txt(p.y) ELSE "")

\* a start without feedrate and with a null startZ: the move to a point has X
\* and Y and no F, the move to a point without coordinates and the retract are
\* the bare command, and the 0 of the omitted endZ is kept
C20_Witness ==
  /\ lastOp = "start"
  /\ options.feedrate = Undefined
  /\ options.startZ = Null
  /\ options.endZ = Undefined
  /\ Len(options.positions) = 2
  /\ probeGCodes[3] = "G0"
  /\ probeGCodes[4] = "G0 X10 Y0"
  /\ probeGCodes[5] = "G38.2 Z0 F10"
  /\ probeGCodes[9] = "G0"

=============================================================================
